---- MODULE Spec2Model ----
(***************************************************************************)
(* Plan / task execution engine of the service-management agent            *)
(* (lib/agent/core.ts): the task graph sorter, the task executor, the      *)
(* plan executor and the mission orchestrator, over the relational store.  *)
(*                                                                         *)
(* The specifications share the definitions:                              *)
(*   SpecSort  the sorter applied to every bounded task array              *)
(*   SpecSortTwice  the same, the sorter called twice on the array         *)
(*   SpecPlan  one executeMission call over every bounded plan             *)
(*   FairSpecPlan  SpecPlan with every started call taking its next step   *)
(*   SpecIndependent  the same, over plans without dependencies            *)
(*   SpecPair  the executeMission calls of two missions, interleaved       *)
(*   SpecRevise  adjustStrategy, updatePlan and decomposeTasks on the      *)
(*             plans of a mission                                          *)
(*   Spec      missions: POST, executeMission calls, pause/resume/cancel,  *)
(*             PATCH, interleaved at the awaits                            *)
(*                                                                         *)
(* The persistence store is modelled as reliable: a db call never throws.  *)
(***************************************************************************)
EXTENDS Integers, Sequences, FiniteSets

\* ---------------------------------------------------------------- bounds
NumTasks == 3          \* SpecSort: tasks of an array
MaxPriority == 1       \* SpecSort: priorities are 0..MaxPriority
MaxEdges == 2          \* SpecSort: dependency ids of an array, all lists together
MaxPlanTasks == 2      \* SpecPlan: tasks of the plan
MaxPlanPriority == 1   \* SpecPlan: priorities are 0..MaxPlanPriority
MaxPlanEdges == 1      \* SpecPlan, Spec: dependency ids of a plan
IndependentTasks == 3  \* SpecIndependent: tasks of the plan
IndependentPriority == 2 \* SpecIndependent: priorities are 0..IndependentPriority
MissionTasks == 1      \* Spec: tasks of a plan
MissionPriority == 0   \* Spec: priorities are 0..MissionPriority
MaxMissions == 1       \* Spec: missions created by POST
MaxRuns == 2           \* Spec: calls of executeMission
ReviseTasks == 1       \* SpecRevise: tasks of one planning answer
MaxRevisions == 2      \* SpecRevise: calls of adjustStrategy, updatePlan, decomposeTasks

\* completionPercentage >= 0.9, in hundredths
CompletionThreshold == 90

VARIABLES
    tasksArr,     \* the Task[] handed to the sorter (the caller's array object)
    input0,       \* history: that array as it was before the first call
    sortResults,  \* history: what each call of the sorter returned, in call order
    dbMissions,   \* table missions: mission id (1..) -> status
    dbPlans,      \* table plans: plan id (1..) -> [missionId, version, status]
    dbTasks,      \* table tasks: task id -> row
    dbToolUsage,  \* table tool_usage: task id -> the rows logged for it, in order
    invocations,  \* history: task id -> how each tool.execute for it ended
    runs,         \* the executeMission calls: run (1..) -> its locals and position
    revisions     \* the adjustStrategy, updatePlan and decomposeTasks calls, likewise

sortVars == <<tasksArr, input0, sortResults>>
dbVars == <<dbMissions, dbPlans, dbTasks, dbToolUsage, invocations, runs, revisions>>
idleVars == <<tasksArr, input0, sortResults, revisions>>
vars == <<tasksArr, input0, sortResults,
          dbMissions, dbPlans, dbTasks, dbToolUsage, invocations, runs, revisions>>

\* ------------------------------------------------------------ task arrays
\* A task as the sorter and the executors read it: id, priority, dependencies.
\* Task ids are primary keys (schema.ts:34), so the ids of an array are distinct.
\* An array of n tasks carries the ids base+1 .. base+n in input order; the id
\* base+n+1 belongs to no task of the array (a dangling dependency id).
SeqsNoDup(S, k) ==
    { s \in UNION { [1..m -> S] : m \in 0..k } :
        \A i, j \in DOMAIN s : i # j => s[i] # s[j] }

\* the dependency lists a planning response may carry, as offsets from the id
\* before the array's first: 1..NumTasks name its tasks, NumTasks+1 names none
LocalDepLists == SeqsNoDup(1..(NumTasks + 1), MaxEdges)
PlanDepLists == SeqsNoDup(1..(MaxPlanTasks + 1), MaxPlanEdges)
ReviseDepLists == SeqsNoDup(1..(ReviseTasks + 1), MaxPlanEdges)
MissionDepLists == SeqsNoDup(1..(MissionTasks + 1), MaxPlanEdges)

Rebase(deps, base) == [ i \in DOMAIN deps |-> base + deps[i] ]

RECURSIVE NumEdges(_)
NumEdges(tasks) ==
    IF tasks = << >> THEN 0
    ELSE Len(tasks[Len(tasks)].dependencies) + NumEdges(SubSeq(tasks, 1, Len(tasks) - 1))

Ids(tasks) == { tasks[i].id : i \in DOMAIN tasks }

\* ------------------------------------------------------ Task Graph Sorter
findTaskOrFirst(tasks, depId) ==
    IF \E i \in DOMAIN tasks : tasks[i].id = depId
    THEN CHOOSE i \in DOMAIN tasks :
            tasks[i].id = depId /\ \A j \in DOMAIN tasks : tasks[j].id = depId => i <= j
    ELSE IF tasks = << >> THEN 0 ELSE 1

\* tasks.find(t => t.id === depId): the index of the first match, 0 for undefined
findTask(tasks, depId) ==
    IF \E i \in DOMAIN tasks : tasks[i].id = depId
    THEN CHOOSE i \in DOMAIN tasks :
            /\ tasks[i].id = depId
            /\ \A j \in DOMAIN tasks : tasks[j].id = depId => i <= j
    ELSE 0

\* the comparator (a, b) => a.priority - b.priority: negative when a sorts first
compareDescending(a, b) == b.priority - a.priority
compare(a, b) == a.priority - b.priority

\* Array.prototype.sort is stable: insert each element after the last element
\* that does not compare greater than it
RECURSIVE insertStable(_, _)
insertStable(s, x) ==
    IF s = << >> THEN << x >>
    ELSE IF compare(s[Len(s)], x) <= 0 THEN Append(s, x)
    ELSE Append(insertStable(SubSeq(s, 1, Len(s) - 1), x), s[Len(s)])

RECURSIVE sortStable(_)
sortStable(s) ==
    IF s = << >> THEN << >>
    ELSE insertStable(sortStable(SubSeq(s, 1, Len(s) - 1)), s[Len(s)])

\* const prioritySorted = [...tasks].sort(...)
prioritySortedInputOrder(tasks) == tasks
prioritySorted(tasks) == sortStable(tasks)

\* the caller's array after the call: the sort works on a copy, [...tasks]
arrayAfterSortInPlace(tasks) == sortStable(tasks)
arrayAfterSort(tasks) == tasks

\* sorted, visited, visiting as the call creates them; thrown/culprit model the
\* Error leaving visit (culprit: the id of the task the message names)
sortStart ==
    [ sorted |-> << >>, visited |-> {}, visiting |-> {}, thrown |-> FALSE, culprit |-> 0 ]

\* if (visiting.has(task.id)) throw new Error(`Circular dependency ...`)
onVisitingIgnore(st, task) == st
onVisitingNameOutermost(st, task) ==
    [ st EXCEPT !.thrown = TRUE,
                !.culprit = CHOOSE v \in st.visiting : \A w \in st.visiting : v <= w ]
onVisiting(st, task) == [ st EXCEPT !.thrown = TRUE, !.culprit = task.id ]

\* visiting.delete(task.id); visited.add(task.id); sorted.push(task)
emit(st, task) ==
    [ st EXCEPT !.visiting = @ \ { task.id },
                !.visited = @ \cup { task.id },
                !.sorted = Append(@, task) ]

\* the dependency a depId resolves to and is visited for: 0 when none is found
depToVisitNone(tasks, depId) == 0
depToVisit(tasks, depId) == findTask(tasks, depId)

RECURSIVE visit(_, _, _)
RECURSIVE visitDeps(_, _, _, _)
visit(st, tasks, task) ==
    IF st.thrown THEN st
    ELSE IF task.id \in st.visiting THEN onVisiting(st, task)
    ELSE IF task.id \in st.visited THEN st
    ELSE LET entered == [ st EXCEPT !.visiting = @ \cup { task.id } ]
             after == visitDeps(entered, tasks, task.dependencies, 1)
         IN  IF after.thrown THEN after ELSE emit(after, task)

\* for (const depId of task.dependencies) { ... if (depTask) visit(depTask) }
visitDeps(st, tasks, deps, i) ==
    IF st.thrown \/ i > Len(deps) THEN st
    ELSE LET d == depToVisit(tasks, deps[i])
         IN  visitDeps(IF d = 0 THEN st ELSE visit(st, tasks, tasks[d]),
                       tasks, deps, i + 1)

\* for (const task of prioritySorted) visit(task)
RECURSIVE visitAll(_, _, _, _)
visitAll(st, tasks, seeds, i) ==
    IF st.thrown \/ i > Len(seeds) THEN st
    ELSE visitAll(visit(st, tasks, seeds[i]), tasks, seeds, i + 1)

\* The call's outcome: the returned array, or the thrown Error (no array at all)
sortTasksByPriorityAndDependencies(tasks) ==
    LET st == visitAll(sortStart, tasks, prioritySorted(tasks), 1)
    IN  IF st.thrown
        THEN [ ok |-> FALSE, sorted |-> << >>, culprit |-> st.culprit ]
        ELSE [ ok |-> TRUE, sorted |-> st.sorted, culprit |-> 0 ]

\* ------------------------------------------------- dependency graph facts
\* <<t, d>>: task t lists the id d of a task the array holds
Edges(tasks) ==
    { e \in UNION { { << tasks[i].id, tasks[i].dependencies[k] >> :
                        k \in DOMAIN tasks[i].dependencies } : i \in DOMAIN tasks } :
        e[2] \in Ids(tasks) }

DependsOn(tasks, t, d) == << t, d >> \in Edges(tasks)

Compose(R) ==
    { << p[1][1], p[2][2] >> : p \in { q \in R \X R : q[1][2] = q[2][1] } }

RECURSIVE Closure(_, _)
Closure(R, n) == IF n = 0 THEN R ELSE Closure(R \cup Compose(R), n - 1)

\* <<t, d>>: t reaches d by one or more dependency edges
Paths(tasks) == Closure(Edges(tasks), Len(tasks))

Reach(tasks, t) == { e[2] : e \in { f \in Paths(tasks) : f[1] = t } }

Cyclic(tasks) == \E e \in Paths(tasks) : e[1] = e[2]

PosOf(seq, id) == CHOOSE i \in DOMAIN seq : seq[i].id = id

PriorityOf(tasks, id) == tasks[PosOf(tasks, id)].priority

\* x and y are distinct tasks with no dependency path from one to the other,
\* paths being the relation Paths of their array
Unrelated(paths, x, y) ==
    /\ x # y
    /\ << x, y >> \notin paths
    /\ << y, x >> \notin paths

\* ------------------------------------------------------------- SpecSort
NoSort ==
    /\ tasksArr = << >>
    /\ input0 = << >>
    /\ sortResults = << >>

EmptyStore ==
    /\ dbMissions = << >>
    /\ dbPlans = << >>
    /\ dbTasks = << >>
    /\ dbToolUsage = << >>
    /\ invocations = << >>
    /\ runs = << >>
    /\ revisions = << >>

SortInit == NoSort /\ EmptyStore

\* tasks.push({...newTask}): the array grows by one task of the planning response
AddTask(p, deps) ==
    /\ sortResults = << >>
    /\ Len(tasksArr) < NumTasks
    /\ NumEdges(tasksArr) + Len(deps) <= MaxEdges
    /\ tasksArr' = Append(tasksArr,
                     [ id |-> Len(tasksArr) + 1, priority |-> p, dependencies |-> deps ])
    /\ UNCHANGED <<input0, sortResults>>
    /\ UNCHANGED dbVars

\* one call of the sorter on the array the caller holds
CallSorter ==
    /\ sortResults' = Append(sortResults, sortTasksByPriorityAndDependencies(tasksArr))
    /\ tasksArr' = arrayAfterSort(tasksArr)
    /\ input0' = IF sortResults = << >> THEN tasksArr ELSE input0
    /\ UNCHANGED dbVars

SortCall ==
    /\ sortResults = << >>
    /\ CallSorter

\* a second call on the same array
SortAgain ==
    /\ Len(sortResults) = 1
    /\ CallSorter

BuildArray ==
    \E p \in 0..MaxPriority, deps \in LocalDepLists : AddTask(p, Rebase(deps, 0))

SortNext == BuildArray \/ SortCall

SpecSort == SortInit /\ [][SortNext]_vars

SortTwiceNext == BuildArray \/ SortCall \/ SortAgain

SpecSortTwice == SortInit /\ [][SortTwiceNext]_vars

\* ------------------------------------------------------- the store, runs
\* db.insert(...).returning() / db.update(...).set(...): one row written
Put(table, key, row) ==
    [ k \in DOMAIN table \cup { key } |-> IF k = key THEN row ELSE table[k] ]

\* createId(): the tasks of plan p get the ids TaskBase(p)+1, TaskBase(p)+2, ...;
\* the stride is larger than any plan, so ids are unique and TaskBase(p) plus an
\* offset above the plan's size is the id of no task of the plan
TaskStride ==
    MaxPlanTasks + IndependentTasks + MissionTasks + ReviseTasks * (MaxRevisions + 1) + 1
TaskBaseShared(planId) == 0
TaskBase(planId) == (planId - 1) * TaskStride

\* an ExecutionResult not yet returned
NoResult ==
    [ returned |-> FALSE, success |-> FALSE, completedTasks |-> << >>,
      failedTasks |-> << >>, error |-> FALSE ]

NoVerdict == [ threw |-> FALSE, completed |-> FALSE, pct |-> 0 ]

\* the judge's answers: assessCompletion throws (or returns no JSON), or returns
\* a flag and a percentage
Verdicts ==
    { [ threw |-> TRUE, completed |-> FALSE, pct |-> 0 ] }
    \cup [ threw : { FALSE }, completed : BOOLEAN,
           pct : { CompletionThreshold - 1, CompletionThreshold } ]

\* the locals of one executeMission call, with those of the createPlan,
\* executePlan and executeTask calls it makes
Locals(missionId, resumed) ==
    [ pc |-> "start",
      missionId |-> missionId,
      resumed |-> resumed,          \* history: called by resumeMission
      plansBefore |-> Len(dbPlans), \* history: the plans stored when it was called
      planId |-> 0,
      planTasks |-> << >>,          \* plan.tasks
      sortedTasks |-> << >>,
      idx |-> 0,                    \* the position of the for loop in sortedTasks
      completedTasks |-> << >>,
      failedTasks |-> << >>,
      outcome |-> "none",           \* how tool.execute ended for the current task
      started |-> << >>,            \* history: the tasks it set in_progress, in order
      execResult |-> NoResult,      \* what executePlan returned
      verdict |-> NoVerdict,        \* history: what the judge answered
      isCompleted |-> FALSE,
      result |-> NoResult ]         \* what executeMission returned

\* executeMission(mission) is called: the call begins at its first statement,
\* whoever calls it
NewRunContinuing(missionId, resumed) ==
    LET mine == { p \in DOMAIN dbPlans : dbPlans[p].missionId = missionId }
        last == CHOOSE p \in mine : \A q \in mine : q <= p
        n == Cardinality({ t \in DOMAIN dbTasks : dbTasks[t].planId = last })
    IN  IF resumed /\ mine # { }
        THEN [ Locals(missionId, resumed) EXCEPT
                 !.pc = "planActive",
                 !.planId = last,
                 !.planTasks = [ k \in 1..n |->
                     [ id |-> TaskBase(last) + k,
                       priority |-> dbTasks[TaskBase(last) + k].priority,
                       dependencies |-> dbTasks[TaskBase(last) + k].dependencies ] ] ]
        ELSE Locals(missionId, resumed)
NewRun(missionId, resumed) == Locals(missionId, resumed)

\* the call r of executeMission exists and waits at one of the places pcs
At(r, pcs) == r \in DOMAIN runs /\ runs[r].pc \in pcs

CurrentTask(run) == run.sortedTasks[run.idx]

TaskIds(seq) == [ i \in DOMAIN seq |-> seq[i].id ]

\* ----------------------------------------------------------- Plan Executor
\* task.dependencies.filter(depId => !dependencyStatuses.find(
\*     t => t.id === depId && t.status === 'completed')), the rows being those
\* of the plan
incompleteDepsNone(deps, rows, planId) == << >>
incompleteDepsAll(deps, rows, planId) == deps
incompleteDepsKnownOnly(deps, rows, planId) ==
    SelectSeq(deps, LAMBDA depId :
        /\ depId \in DOMAIN rows
        /\ ~(rows[depId].planId = planId /\ rows[depId].status = "completed"))
incompleteDeps(deps, rows, planId) ==
    SelectSeq(deps, LAMBDA depId :
        ~( /\ depId \in DOMAIN rows
           /\ rows[depId].planId = planId
           /\ rows[depId].status = "completed" ))

\* where the for loop waits next once it stands at index i: the dependency
\* select of a task that lists dependencies, the first update of executeTask,
\* or the plan's final update
loopAwait(sorted, i) ==
    IF i > Len(sorted) THEN "planFinal"
    ELSE IF Len(sorted[i].dependencies) > 0 THEN "depCheck"
    ELSE "taskStart"

\* the loop goes on to the next task
continueLoopUntilFailure(run) ==
    IF run.failedTasks # << >>
    THEN [ run EXCEPT !.idx = @ + 1, !.outcome = "none", !.pc = "planFinal" ]
    ELSE [ run EXCEPT !.idx = @ + 1, !.outcome = "none",
                      !.pc = loopAwait(run.sortedTasks, run.idx + 1) ]
continueLoop(run) ==
    [ run EXCEPT !.idx = @ + 1, !.outcome = "none",
                 !.pc = loopAwait(run.sortedTasks, run.idx + 1) ]

\* const finalStatus = failedTasks.length === 0 ? 'completed' : 'failed'
planFinalStatusAlwaysCompleted(failedTasks) == "completed"
planFinalStatus(failedTasks) == IF Len(failedTasks) = 0 THEN "completed" ELSE "failed"

\* the row executeTool logs: success: result.success, or false when it threw
usageRowAsReturned(outcome) == [ success |-> outcome # "throw", threw |-> outcome = "throw" ]
usageRow(outcome) == [ success |-> outcome = "ok", threw |-> outcome = "throw" ]

\* executePlan: db.update(plans).set({status:'active'}), then the sorter, then
\* the loop up to its first await
SetPlanActive(r) ==
    /\ At(r, { "planActive" })
    /\ dbPlans' = [ dbPlans EXCEPT ![runs[r].planId].status = "active" ]
    /\ LET res == sortTasksByPriorityAndDependencies(runs[r].planTasks)
       IN  runs' = [ runs EXCEPT ![r] =
              IF res.ok
              THEN [ @ EXCEPT !.sortedTasks = res.sorted, !.idx = 1,
                              !.pc = loopAwait(res.sorted, 1) ]
              ELSE [ @ EXCEPT !.pc = "planCatch" ] ]
    /\ UNCHANGED <<dbMissions, dbTasks, dbToolUsage, invocations>>
    /\ UNCHANGED idleVars

\* the dependency select of the loop and the skip it decides
DepCheck(r) ==
    /\ At(r, { "depCheck" })
    /\ LET run == runs[r]
           open == incompleteDeps(CurrentTask(run).dependencies, dbTasks, run.planId)
       IN  runs' = [ runs EXCEPT ![r] =
              IF Len(open) > 0 THEN continueLoop(run)
              ELSE [ run EXCEPT !.pc = "taskStart" ] ]
    /\ UNCHANGED <<dbMissions, dbPlans, dbTasks, dbToolUsage, invocations>>
    /\ UNCHANGED idleVars

\* ----------------------------------------------------------- Task Executor
\* executeTask: db.update(tasks).set({status:'in_progress', startedAt})
\* the row as the first update of executeTask leaves it
startedRowStillPending(row) == row
startedRow(row) == [ row EXCEPT !.status = "in_progress", !.startedAt = TRUE ]

TaskStart(r) ==
    /\ At(r, { "taskStart" })
    /\ LET t == CurrentTask(runs[r]).id
       IN  /\ dbTasks' = [ dbTasks EXCEPT ![t] = startedRow(@) ]
           /\ runs' = [ runs EXCEPT ![r].pc = "selectTool",
                                    ![r].started = Append(@, t) ]
    /\ UNCHANGED <<dbMissions, dbPlans, dbToolUsage, invocations>>
    /\ UNCHANGED idleVars

\* selectTool returns a tool or null (the registry has no such name, the
\* reasoning service names none, or its call fails); null makes executeTask throw
SelectTool(r, found) ==
    /\ At(r, { "selectTool" })
    /\ runs' = [ runs EXCEPT ![r].pc = IF found THEN "toolExecute" ELSE "taskCatch" ]
    /\ UNCHANGED <<dbMissions, dbPlans, dbTasks, dbToolUsage, invocations>>
    /\ UNCHANGED idleVars

\* executeTool: tool.execute(params, context) returns success:true ("ok"),
\* returns success:false ("fail") or throws ("throw")
ToolExecute(r, outcome) ==
    /\ At(r, { "toolExecute" })
    /\ LET t == CurrentTask(runs[r]).id
       IN  invocations' = [ invocations EXCEPT ![t] = Append(@, outcome) ]
    /\ runs' = [ runs EXCEPT ![r].pc = "recordUsage", ![r].outcome = outcome ]
    /\ UNCHANGED <<dbMissions, dbPlans, dbTasks, dbToolUsage>>
    /\ UNCHANGED idleVars

\* executeTool: db.insert(toolUsage), in the try or in the catch; then the
\* result is returned or the error thrown again
RecordUsage(r) ==
    /\ At(r, { "recordUsage" })
    /\ LET t == CurrentTask(runs[r]).id
       IN  dbToolUsage' = [ dbToolUsage EXCEPT ![t] = Append(@, usageRow(runs[r].outcome)) ]
    /\ runs' = [ runs EXCEPT ![r].pc =
                   IF runs[r].outcome = "throw" THEN "taskCatch" ELSE "taskUpdate" ]
    /\ UNCHANGED <<dbMissions, dbPlans, dbTasks, invocations>>
    /\ UNCHANGED idleVars

\* const status = result.success ? 'completed' : 'failed'
taskStatusAlwaysCompleted(success) == "completed"
taskStatusLeftInProgress(success) == IF success THEN "completed" ELSE "in_progress"
taskStatus(success) == IF success THEN "completed" ELSE "failed"

\* executeTask: db.update(tasks).set({status, completedAt, result}) and return;
\* executePlan files the task under completed or failed and goes on
TaskUpdate(r) ==
    /\ At(r, { "taskUpdate" })
    /\ LET run == runs[r]
           t == CurrentTask(run).id
           ok == run.outcome = "ok"
       IN  /\ dbTasks' = [ dbTasks EXCEPT
                  ![t].status = taskStatus(ok),
                  ![t].completedAt = TRUE,
                  ![t].result = "data" ]
           /\ runs' = [ runs EXCEPT ![r] = continueLoop(
                  IF ok THEN [ run EXCEPT !.completedTasks = Append(@, t) ]
                  ELSE [ run EXCEPT !.failedTasks = Append(@, t) ]) ]
    /\ UNCHANGED <<dbMissions, dbPlans, dbToolUsage, invocations>>
    /\ UNCHANGED idleVars

\* executeTask's catch: the task is set failed with the error as its result and
\* the error thrown again; executePlan's inner catch files the task under failed
TaskCatch(r) ==
    /\ At(r, { "taskCatch" })
    /\ LET run == runs[r]
           t == CurrentTask(run).id
       IN  /\ dbTasks' = [ dbTasks EXCEPT
                  ![t].status = "failed",
                  ![t].completedAt = TRUE,
                  ![t].result = "error" ]
           /\ runs' = [ runs EXCEPT ![r] =
                  continueLoop([ run EXCEPT !.failedTasks = Append(@, t) ]) ]
    /\ UNCHANGED <<dbMissions, dbPlans, dbToolUsage, invocations>>
    /\ UNCHANGED idleVars

\* executePlan: the final db.update(plans) and the returned ExecutionResult
PlanFinal(r) ==
    /\ At(r, { "planFinal" })
    /\ LET run == runs[r]
       IN  /\ dbPlans' = [ dbPlans EXCEPT
                  ![run.planId].status = planFinalStatus(run.failedTasks) ]
           /\ runs' = [ runs EXCEPT ![r].pc = "validate",
                  ![r].execResult =
                      [ returned |-> TRUE,
                        success |-> Len(run.failedTasks) = 0,
                        completedTasks |-> run.completedTasks,
                        failedTasks |-> run.failedTasks,
                        error |-> FALSE ] ]
    /\ UNCHANGED <<dbMissions, dbTasks, dbToolUsage, invocations>>
    /\ UNCHANGED idleVars

\* the ExecutionResult the outer catch of executePlan returns
caughtResultWithoutError(run) ==
    [ returned |-> TRUE, success |-> FALSE, completedTasks |-> run.completedTasks,
      failedTasks |-> run.failedTasks, error |-> FALSE ]
caughtResult(run) ==
    [ returned |-> TRUE, success |-> FALSE, completedTasks |-> run.completedTasks,
      failedTasks |-> run.failedTasks, error |-> TRUE ]

\* executePlan's outer catch (the sorter threw): plan failed, error returned
PlanCatch(r) ==
    /\ At(r, { "planCatch" })
    /\ LET run == runs[r]
       IN  /\ dbPlans' = [ dbPlans EXCEPT ![run.planId].status = "failed" ]
           /\ runs' = [ runs EXCEPT ![r].pc = "validate",
                                    ![r].execResult = caughtResult(run) ]
    /\ UNCHANGED <<dbMissions, dbTasks, dbToolUsage, invocations>>
    /\ UNCHANGED idleVars

\* ------------------------------------------------------- Planning Engine
\* createPlan: generatePlan answers and JSON.parse accepts the answer
GeneratePlan(r) ==
    /\ At(r, { "generatePlan" })
    /\ runs' = [ runs EXCEPT ![r].pc = "insertPlan" ]
    /\ UNCHANGED <<dbMissions, dbPlans, dbTasks, dbToolUsage, invocations>>
    /\ UNCHANGED idleVars

\* createPlan: db.insert(plans) with status draft (version defaults to 1)
InsertPlan(r) ==
    /\ At(r, { "insertPlan" })
    /\ dbPlans' = Append(dbPlans,
          [ missionId |-> runs[r].missionId, version |-> 1, status |-> "draft" ])
    /\ runs' = [ runs EXCEPT ![r].pc = "insertTasks", ![r].planId = Len(dbPlans) + 1 ]
    /\ UNCHANGED <<dbMissions, dbTasks, dbToolUsage, invocations>>
    /\ UNCHANGED idleVars

\* the row db.insert(tasks) stores: status defaults to pending, parentTaskId to
\* null (0), the dependency list is the answer's, as it came
NewTaskRow(planId, parentTaskId, priority, dependencies) ==
    [ planId |-> planId, parentTaskId |-> parentTaskId, status |-> "pending",
      priority |-> priority, dependencies |-> dependencies, startedAt |-> FALSE,
      completedAt |-> FALSE, result |-> "none" ]

\* createPlan's loop: db.insert(tasks) of the next task of the answer (status
\* defaults to pending) and tasks.push; at most maxTasks tasks, maxEdges
\* dependency ids in the plan
InsertTask(r, maxTasks, maxEdges, priority, deps) ==
    /\ At(r, { "insertTasks" })
    /\ Len(runs[r].planTasks) < maxTasks
    /\ NumEdges(runs[r].planTasks) + Len(deps) <= maxEdges
    /\ LET run == runs[r]
           id == TaskBase(run.planId) + Len(run.planTasks) + 1
           dependencies == Rebase(deps, TaskBase(run.planId))
       IN  /\ dbTasks' = Put(dbTasks, id, NewTaskRow(run.planId, 0, priority, dependencies))
           /\ dbToolUsage' = Put(dbToolUsage, id, << >>)
           /\ invocations' = Put(invocations, id, << >>)
           /\ runs' = [ runs EXCEPT ![r].planTasks = Append(@,
                  [ id |-> id, priority |-> priority, dependencies |-> dependencies ]) ]
    /\ UNCHANGED <<dbMissions, dbPlans>>
    /\ UNCHANGED idleVars

\* createPlan's catch: generatePlan failed, its answer is no JSON, or the
\* answer's task list cannot be stored; the error reaches executeMission's catch
CreatePlanThrows(r) ==
    /\ At(r, { "generatePlan", "insertTasks" })
    /\ runs' = [ runs EXCEPT ![r].pc = "missionCatch" ]
    /\ UNCHANGED <<dbMissions, dbPlans, dbTasks, dbToolUsage, invocations>>
    /\ UNCHANGED idleVars

\* ------------------------------------------------------- plan revisions
\* the locals of one adjustStrategy, updatePlan or decomposeTasks call; plan is
\* the Plan object the caller hands over (its id and its version as loaded)
NewRevision(kind, missionId, planId, taskId) ==
    [ kind |-> kind,
      pc |-> IF kind = "adjust" THEN "trackProgress"
             ELSE IF kind = "update" THEN "updateGenerate"
             ELSE "decomposeGenerate",
      missionId |-> missionId,
      planId |-> planId,
      version |-> dbPlans[planId].version,
      taskId |-> taskId,
      newPlanId |-> 0,
      inserted |-> 0,       \* the tasks its insert loop has stored
      returned |-> "none" ] \* what the call returned: "plan" (the plan handed
                            \* over), "newPlan", "updated", "subtasks" or "threw"

\* the revision call c exists and waits at one of the places pcs
Revising(c, pcs) == c \in DOMAIN revisions /\ revisions[c].pc \in pcs

\* no executeMission call is in flight: nothing in the repository calls the
\* revision operations, and they are taken to be called between runs
NoRunInFlight == \A r \in DOMAIN runs : runs[r].pc = "done"

\* createId(): the next id of a task of the plan, never handed out before
NextTaskId(planId) ==
    TaskBase(planId) + 1
      + Cardinality({ t \in DOMAIN invocations :
                        t > TaskBase(planId) /\ t <= TaskBase(planId) + TaskStride })

\* trackProgress: completed tasks over all tasks of plans[0], the first plan
\* of the mission, 0 without tasks; adjustStrategy acts when it is below 0.5
progressLow(missionId) ==
    LET mine == { p \in DOMAIN dbPlans : dbPlans[p].missionId = missionId }
        first == CHOOSE p \in mine : \A q \in mine : p <= q
        all == { t \in DOMAIN dbTasks : dbTasks[t].planId = first }
        completed == { t \in all : dbTasks[t].status = "completed" }
    IN  IF mine = { } \/ all = { } THEN TRUE
        ELSE 2 * Cardinality(completed) < Cardinality(all)

\* version: plan.version + 1
nextVersion(version) == version + 1

\* adjustStrategy(mission, plan) is called with a stored plan of the mission
adjustStrategy(missionId, planId) ==
    /\ NoRunInFlight
    /\ Len(revisions) < MaxRevisions
    /\ missionId \in DOMAIN dbMissions
    /\ planId \in DOMAIN dbPlans
    /\ dbPlans[planId].missionId = missionId
    /\ revisions' = Append(revisions, NewRevision("adjust", missionId, planId, 0))
    /\ UNCHANGED <<dbMissions, dbPlans, dbTasks, dbToolUsage, invocations, runs>>
    /\ UNCHANGED sortVars

\* adjustStrategy: trackProgress's selects, then the comparison with 0.5
TrackProgress(c) ==
    /\ Revising(c, { "trackProgress" })
    /\ revisions' = [ revisions EXCEPT ![c] =
          IF progressLow(revisions[c].missionId)
          THEN [ @ EXCEPT !.pc = "adjustGenerate" ]
          ELSE [ @ EXCEPT !.pc = "done", !.returned = "plan" ] ]
    /\ UNCHANGED <<dbMissions, dbPlans, dbTasks, dbToolUsage, invocations, runs>>
    /\ UNCHANGED sortVars

\* adjustStrategy: generatePlan answers JSON, or the catch returns the plan
AdjustGenerate(c, answered) ==
    /\ Revising(c, { "adjustGenerate" })
    /\ revisions' = [ revisions EXCEPT ![c] =
          IF answered
          THEN [ @ EXCEPT !.pc = "adjustInsert" ]
          ELSE [ @ EXCEPT !.pc = "done", !.returned = "plan" ] ]
    /\ UNCHANGED <<dbMissions, dbPlans, dbTasks, dbToolUsage, invocations, runs>>
    /\ UNCHANGED sortVars

\* adjustStrategy: db.insert(plans) of the new version, status draft
AdjustInsert(c) ==
    /\ Revising(c, { "adjustInsert" })
    /\ dbPlans' = Append(dbPlans,
          [ missionId |-> revisions[c].missionId,
            version |-> nextVersion(revisions[c].version),
            status |-> "draft" ])
    /\ revisions' = [ revisions EXCEPT ![c].pc = "adjustSupersede",
                                       ![c].newPlanId = Len(dbPlans) + 1 ]
    /\ UNCHANGED <<dbMissions, dbTasks, dbToolUsage, invocations, runs>>
    /\ UNCHANGED sortVars

\* adjustStrategy: db.update(plans).set({status:'superseded'}) of the old plan,
\* then the new plan is returned
AdjustSupersede(c) ==
    /\ Revising(c, { "adjustSupersede" })
    /\ dbPlans' = [ dbPlans EXCEPT ![revisions[c].planId].status = "superseded" ]
    /\ revisions' = [ revisions EXCEPT ![c].pc = "done", ![c].returned = "newPlan" ]
    /\ UNCHANGED <<dbMissions, dbTasks, dbToolUsage, invocations, runs>>
    /\ UNCHANGED sortVars
\* updatePlan(plan, feedback, context) is called with a stored plan
updatePlan(planId) ==
    /\ NoRunInFlight
    /\ Len(revisions) < MaxRevisions
    /\ planId \in DOMAIN dbPlans
    /\ revisions' = Append(revisions,
          NewRevision("update", dbPlans[planId].missionId, planId, 0))
    /\ UNCHANGED <<dbMissions, dbPlans, dbTasks, dbToolUsage, invocations, runs>>
    /\ UNCHANGED sortVars

\* decomposeTasks(task, context) is called with a stored task
decomposeTasks(taskId) ==
    /\ NoRunInFlight
    /\ Len(revisions) < MaxRevisions
    /\ taskId \in DOMAIN dbTasks
    /\ LET planId == dbTasks[taskId].planId
       IN  revisions' = Append(revisions,
              NewRevision("decompose", dbPlans[planId].missionId, planId, taskId))
    /\ UNCHANGED <<dbMissions, dbPlans, dbTasks, dbToolUsage, invocations, runs>>
    /\ UNCHANGED sortVars

\* updatePlan, decomposeTasks: generatePlan answers and JSON.parse accepts it
ReviseGenerate(c) ==
    /\ Revising(c, { "updateGenerate", "decomposeGenerate" })
    /\ revisions' = [ revisions EXCEPT ![c].pc =
          IF revisions[c].kind = "update" THEN "updateVersion" ELSE "reviseInsert" ]
    /\ UNCHANGED <<dbMissions, dbPlans, dbTasks, dbToolUsage, invocations, runs>>
    /\ UNCHANGED sortVars

\* the catch of updatePlan and decomposeTasks: generatePlan failed, its answer
\* is no JSON or lists no tasks; the error is thrown again
ReviseThrows(c) ==
    /\ Revising(c, { "updateGenerate", "decomposeGenerate", "reviseInsert" })
    /\ revisions' = [ revisions EXCEPT ![c].pc = "done", ![c].returned = "threw" ]
    /\ UNCHANGED <<dbMissions, dbPlans, dbTasks, dbToolUsage, invocations, runs>>
    /\ UNCHANGED sortVars

\* updatePlan: db.update(plans).set({..., version: plan.version + 1})
UpdateVersion(c) ==
    /\ Revising(c, { "updateVersion" })
    /\ dbPlans' = [ dbPlans EXCEPT ![revisions[c].planId].version =
                      nextVersion(revisions[c].version) ]
    /\ revisions' = [ revisions EXCEPT ![c].pc = "updateDelete" ]
    /\ UNCHANGED <<dbMissions, dbTasks, dbToolUsage, invocations, runs>>
    /\ UNCHANGED sortVars

\* updatePlan: db.delete(tasks).where(planId = plan.id); the tool_usage rows of
\* the tasks go with them (onDelete: cascade)
UpdateDelete(c) ==
    /\ Revising(c, { "updateDelete" })
    /\ LET kept == { t \in DOMAIN dbTasks : dbTasks[t].planId # revisions[c].planId }
       IN  /\ dbTasks' = [ t \in kept |-> dbTasks[t] ]
           /\ dbToolUsage' = [ t \in kept |-> dbToolUsage[t] ]
    /\ revisions' = [ revisions EXCEPT ![c].pc = "reviseInsert" ]
    /\ UNCHANGED <<dbMissions, dbPlans, invocations, runs>>
    /\ UNCHANGED sortVars

\* the loops of updatePlan and decomposeTasks: db.insert(tasks) of the next
\* task of the answer, in the plan, under the decomposed task if there is one;
\* the insert throws when that parent row is gone (parent_task_id references
\* tasks.id)
ReviseInsertTask(c, priority, deps) ==
    /\ Revising(c, { "reviseInsert" })
    /\ revisions[c].inserted < ReviseTasks
    /\ LET call == revisions[c]
           id == NextTaskId(call.planId)
           dependencies == Rebase(deps, TaskBase(call.planId))
       IN  IF call.kind = "decompose" /\ call.taskId \notin DOMAIN dbTasks
           THEN /\ revisions' = [ revisions EXCEPT ![c].pc = "done",
                                                   ![c].returned = "threw" ]
                /\ UNCHANGED <<dbTasks, dbToolUsage, invocations>>
           ELSE /\ dbTasks' = Put(dbTasks, id,
                       NewTaskRow(call.planId, call.taskId, priority, dependencies))
                /\ dbToolUsage' = Put(dbToolUsage, id, << >>)
                /\ invocations' = Put(invocations, id, << >>)
                /\ revisions' = [ revisions EXCEPT ![c].inserted = @ + 1 ]
    /\ UNCHANGED <<dbMissions, dbPlans, runs>>
    /\ UNCHANGED sortVars

\* the loop is through the answer's tasks: updatePlan returns the updated
\* plan, decomposeTasks the subtasks
ReviseReturn(c) ==
    /\ Revising(c, { "reviseInsert" })
    /\ revisions' = [ revisions EXCEPT ![c].pc = "done", ![c].returned =
          IF revisions[c].kind = "update" THEN "updated" ELSE "subtasks" ]
    /\ UNCHANGED <<dbMissions, dbPlans, dbTasks, dbToolUsage, invocations, runs>>
    /\ UNCHANGED sortVars

\* --------------------------------------------------- Mission Orchestrator
\* assessmentData.completed && assessmentData.completionPercentage >= 0.9;
\* false when the judge's call failed
validateCompletionFlagOnly(verdict) == ~verdict.threw /\ verdict.completed
validateCompletionAboveThreshold(verdict) ==
    /\ ~verdict.threw
    /\ verdict.completed
    /\ verdict.pct > CompletionThreshold
validateCompletion(verdict) ==
    /\ ~verdict.threw
    /\ verdict.completed
    /\ verdict.pct >= CompletionThreshold

\* const finalStatus = isCompleted ? 'completed' : 'failed'
missionFinalStatusKeepsExecuting(isCompleted, execResult) ==
    IF isCompleted THEN "completed" ELSE "executing"
missionFinalStatus(isCompleted, execResult) ==
    IF isCompleted THEN "completed" ELSE "failed"

\* executeMission: db.update(missions).set({status:'planning'})
SetPlanning(r) ==
    /\ At(r, { "start" })
    /\ dbMissions' = [ dbMissions EXCEPT ![runs[r].missionId] = "planning" ]
    /\ runs' = [ runs EXCEPT ![r].pc = "generatePlan" ]
    /\ UNCHANGED <<dbPlans, dbTasks, dbToolUsage, invocations>>
    /\ UNCHANGED idleVars

\* createPlan has returned the plan; db.update(missions).set({status:'executing'})
SetExecuting(r) ==
    /\ At(r, { "insertTasks" })
    /\ dbMissions' = [ dbMissions EXCEPT ![runs[r].missionId] = "executing" ]
    /\ runs' = [ runs EXCEPT ![r].pc = "planActive" ]
    /\ UNCHANGED <<dbPlans, dbTasks, dbToolUsage, invocations>>
    /\ UNCHANGED idleVars

\* validateCompletion: the judge answers
Validate(r, verdict) ==
    /\ At(r, { "validate" })
    /\ runs' = [ runs EXCEPT ![r].pc = "setFinal",
                             ![r].verdict = verdict,
                             ![r].isCompleted = validateCompletion(verdict) ]
    /\ UNCHANGED <<dbMissions, dbPlans, dbTasks, dbToolUsage, invocations>>
    /\ UNCHANGED idleVars

\* executeMission: the final db.update(missions) and the returned result
SetFinal(r) ==
    /\ At(r, { "setFinal" })
    /\ LET run == runs[r]
       IN  /\ dbMissions' = [ dbMissions EXCEPT ![run.missionId] =
                  missionFinalStatus(run.isCompleted, run.execResult) ]
           /\ runs' = [ runs EXCEPT ![r].pc = "done",
                  ![r].result = [ run.execResult EXCEPT !.success = run.isCompleted ] ]
    /\ UNCHANGED <<dbPlans, dbTasks, dbToolUsage, invocations>>
    /\ UNCHANGED idleVars

\* executeMission's catch: mission failed, the empty failure result returned
MissionCatch(r) ==
    /\ At(r, { "missionCatch" })
    /\ dbMissions' = [ dbMissions EXCEPT ![runs[r].missionId] = "failed" ]
    /\ runs' = [ runs EXCEPT ![r].pc = "done",
                 ![r].result = [ returned |-> TRUE, success |-> FALSE,
                                 completedTasks |-> << >>, failedTasks |-> << >>,
                                 error |-> TRUE ] ]
    /\ UNCHANGED <<dbPlans, dbTasks, dbToolUsage, invocations>>
    /\ UNCHANGED idleVars

\* POST /api/missions: the mission is stored pending and executeMission is
\* started in the background
POST ==
    /\ Len(dbMissions) < MaxMissions
    /\ Len(runs) < MaxRuns
    /\ dbMissions' = Append(dbMissions, "pending")
    /\ runs' = Append(runs, NewRun(Len(dbMissions) + 1, FALSE))
    /\ UNCHANGED <<dbPlans, dbTasks, dbToolUsage, invocations>>
    /\ UNCHANGED idleVars

\* pauseMission: db.update(missions).set({status:'pending'}) where id =
\* missionId; no such row, nothing written
pauseMission(missionId) ==
    /\ dbMissions' = [ m \in DOMAIN dbMissions |->
                         IF m = missionId THEN "pending" ELSE dbMissions[m] ]
    /\ UNCHANGED <<dbPlans, dbTasks, dbToolUsage, invocations, runs>>
    /\ UNCHANGED idleVars

\* cancelMission: db.update(missions).set({status:'failed'})
cancelMission(missionId) ==
    /\ dbMissions' = [ m \in DOMAIN dbMissions |->
                         IF m = missionId THEN "failed" ELSE dbMissions[m] ]
    /\ UNCHANGED <<dbPlans, dbTasks, dbToolUsage, invocations, runs>>
    /\ UNCHANGED idleVars

\* resumeMission: the mission is read and, when it exists, executeMission called
resumeMission(missionId) ==
    /\ missionId \in DOMAIN dbMissions
    /\ Len(runs) < MaxRuns
    /\ runs' = Append(runs, NewRun(missionId, TRUE))
    /\ UNCHANGED <<dbMissions, dbPlans, dbTasks, dbToolUsage, invocations>>
    /\ UNCHANGED idleVars

\* PATCH /api/missions/[id], action pause
PatchPause(missionId) ==
    /\ dbMissions' = [ m \in DOMAIN dbMissions |->
                         IF m = missionId THEN "pending" ELSE dbMissions[m] ]
    /\ UNCHANGED <<dbPlans, dbTasks, dbToolUsage, invocations, runs>>
    /\ UNCHANGED idleVars

\* PATCH /api/missions/[id], action resume: the status is written, the agent
\* is not called
PatchResume(missionId) ==
    /\ dbMissions' = [ m \in DOMAIN dbMissions |->
                         IF m = missionId THEN "executing" ELSE dbMissions[m] ]
    /\ UNCHANGED <<dbPlans, dbTasks, dbToolUsage, invocations, runs>>
    /\ UNCHANGED idleVars

\* PATCH /api/missions/[id], action cancel
PatchCancel(missionId) ==
    /\ dbMissions' = [ m \in DOMAIN dbMissions |->
                         IF m = missionId THEN "failed" ELSE dbMissions[m] ]
    /\ UNCHANGED <<dbPlans, dbTasks, dbToolUsage, invocations, runs>>
    /\ UNCHANGED idleVars

\* ------------------------------------------------------------- SpecPlan
\* one mission, posted; its executeMission call runs alone
PlanInit ==
    /\ NoSort
    /\ dbMissions = << "pending" >>
    /\ dbPlans = << >>
    /\ dbTasks = << >>
    /\ dbToolUsage = << >>
    /\ invocations = << >>
    /\ runs = << NewRun(1, FALSE) >>
    /\ revisions = << >>

\* the steps of a run r that do not depend on the size of the planning answer
RunStep(r) ==
    \/ SetPlanning(r)
    \/ GeneratePlan(r)
    \/ CreatePlanThrows(r)
    \/ InsertPlan(r)
    \/ SetExecuting(r)
    \/ SetPlanActive(r)
    \/ DepCheck(r)
    \/ TaskStart(r)
    \/ \E found \in BOOLEAN : SelectTool(r, found)
    \/ \E outcome \in { "ok", "fail", "throw" } : ToolExecute(r, outcome)
    \/ RecordUsage(r)
    \/ TaskUpdate(r)
    \/ TaskCatch(r)
    \/ PlanFinal(r)
    \/ PlanCatch(r)
    \/ \E verdict \in Verdicts : Validate(r, verdict)
    \/ SetFinal(r)
    \/ MissionCatch(r)

PlanNext ==
    \/ RunStep(1)
    \/ \E p \in 0..MaxPlanPriority, deps \in PlanDepLists :
          InsertTask(1, MaxPlanTasks, MaxPlanEdges, p, deps)

SpecPlan == PlanInit /\ [][PlanNext]_vars

\* every awaited call returns or throws, and the event loop then runs the
\* continuation: a step of the call that can be taken is taken
FairSpecPlan == SpecPlan /\ WF_vars(PlanNext)

\* ------------------------------------------------------ SpecIndependent
\* as SpecPlan, the planning answer lists no dependencies: the loop never does
\* the dependency select and the sorter never throws
IndependentNext ==
    \/ SetPlanning(1)
    \/ GeneratePlan(1)
    \/ CreatePlanThrows(1)
    \/ InsertPlan(1)
    \/ \E p \in 0..IndependentPriority : InsertTask(1, IndependentTasks, 0, p, << >>)
    \/ SetExecuting(1)
    \/ SetPlanActive(1)
    \/ TaskStart(1)
    \/ \E found \in BOOLEAN : SelectTool(1, found)
    \/ \E outcome \in { "ok", "fail", "throw" } : ToolExecute(1, outcome)
    \/ RecordUsage(1)
    \/ TaskUpdate(1)
    \/ TaskCatch(1)
    \/ PlanFinal(1)
    \/ \E verdict \in Verdicts : Validate(1, verdict)
    \/ SetFinal(1)
    \/ MissionCatch(1)

SpecIndependent == PlanInit /\ [][IndependentNext]_vars

\* ----------------------------------------------------------- SpecRevise
\* one mission: its executeMission call, then calls of the revision operations
\* on its plans and tasks, interleaved at their awaits
ReviseStep(c) ==
    \/ TrackProgress(c)
    \/ \E answered \in BOOLEAN : AdjustGenerate(c, answered)
    \/ AdjustInsert(c)
    \/ AdjustSupersede(c)
    \/ ReviseGenerate(c)
    \/ ReviseThrows(c)
    \/ UpdateVersion(c)
    \/ UpdateDelete(c)
    \/ \E p \in 0..MissionPriority, deps \in ReviseDepLists : ReviseInsertTask(c, p, deps)
    \/ ReviseReturn(c)

ReviseNext ==
    \/ RunStep(1)
    \/ \E p \in 0..MissionPriority, deps \in ReviseDepLists :
          InsertTask(1, ReviseTasks, MaxPlanEdges, p, deps)
    \/ \E planId \in 1..(MaxRevisions + 1) :
          \/ adjustStrategy(1, planId)
          \/ updatePlan(planId)
    \/ \E taskId \in 1..(TaskStride * (MaxRevisions + 1)) : decomposeTasks(taskId)
    \/ \E c \in 1..MaxRevisions : ReviseStep(c)

SpecRevise == PlanInit /\ [][ReviseNext]_vars

\* ------------------------------------------------------------- SpecPair
\* two missions, posted; their executeMission calls interleave at the awaits
PairInit ==
    /\ NoSort
    /\ dbMissions = << "pending", "pending" >>
    /\ dbPlans = << >>
    /\ dbTasks = << >>
    /\ dbToolUsage = << >>
    /\ invocations = << >>
    /\ runs = << NewRun(1, FALSE), NewRun(2, FALSE) >>
    /\ revisions = << >>

PairNext ==
    \E r \in { 1, 2 } :
        \/ RunStep(r)
        \/ \E p \in 0..MissionPriority, deps \in MissionDepLists :
              InsertTask(r, MissionTasks, MaxPlanEdges, p, deps)

SpecPair == PairInit /\ [][PairNext]_vars

\* ----------------------------------------------------------------- Spec
Init == NoSort /\ EmptyStore

Next ==
    \/ POST
    \/ \E r \in 1..MaxRuns : RunStep(r)
    \/ \E r \in 1..MaxRuns, p \in 0..MissionPriority, deps \in MissionDepLists :
          InsertTask(r, MissionTasks, MaxPlanEdges, p, deps)
    \/ \E m \in 1..MaxMissions :
          \/ pauseMission(m)
          \/ resumeMission(m)
          \/ cancelMission(m)
          \/ PatchPause(m)
          \/ PatchResume(m)
          \/ PatchCancel(m)

Spec == Init /\ [][Next]_vars

\* ------------------------------------------------- claims on the sorter
\* C1: for every task array with distinct ids and an acyclic dependency graph
\* the sorter returns a permutation of the input (every task exactly once) in
\* which every dependency the array holds is placed before the task that
\* lists it.
SortIsTopologicalPermutation ==
    \A k \in DOMAIN sortResults :
        LET r == sortResults[k]
        IN  ~Cyclic(input0) =>
              /\ r.ok
              /\ Len(r.sorted) = Len(input0)
              /\ { r.sorted[i] : i \in DOMAIN r.sorted } = { input0[i] : i \in DOMAIN input0 }
              /\ \A t, d \in Ids(input0) :
                    DependsOn(input0, t, d) => PosOf(r.sorted, d) < PosOf(r.sorted, t)

\* an acyclic array was sorted in which a task of lower numeric priority
\* depends on a later task of higher numeric priority
SortIsTopologicalPermutationWitness ==
    /\ sortResults # << >>
    /\ ~Cyclic(input0)
    /\ \E t, d \in Ids(input0) :
          /\ DependsOn(input0, t, d)
          /\ PriorityOf(input0, t) < PriorityOf(input0, d)
          /\ t < d

\* C2: for every task array whose dependency graph has a cycle (a task that
\* lists itself included) the sorter throws the circular-dependency error and
\* returns no ordering, whatever the priorities and the input order.
SortCycleThrows ==
    \A k \in DOMAIN sortResults :
        Cyclic(input0) => ~sortResults[k].ok /\ sortResults[k].sorted = << >>

\* a sorted array held a cycle through two distinct tasks
SortCycleThrowsWitness ==
    /\ sortResults # << >>
    /\ \E t, d \in Ids(input0) :
          t # d /\ d \in Reach(input0, t) /\ t \in Reach(input0, d)

\* C28: when the sorter throws, the task its error names lies on a dependency
\* cycle: it reaches itself by one or more dependency edges; for every cyclic
\* array, priorities and input order.
SortErrorNamesTaskOnCycle ==
    \A k \in DOMAIN sortResults :
        ~sortResults[k].ok
            => /\ sortResults[k].culprit \in Ids(input0)
               /\ sortResults[k].culprit \in Reach(input0, sortResults[k].culprit)

\* the sorter threw on an array in which a task off the cycle leads into it
SortErrorNamesTaskOnCycleWitness ==
    /\ sortResults # << >>
    /\ ~sortResults[1].ok
    /\ \E t \in Ids(input0) :
          /\ t \notin Reach(input0, t)
          /\ sortResults[1].culprit \in Reach(input0, t)

SortPriorityAmongUnrelated ==
    \A k \in DOMAIN sortResults :
        LET r == sortResults[k]
            paths == Paths(input0)
        IN  r.ok =>
              \A x, y \in Ids(input0) :
                  ( /\ PriorityOf(input0, x) < PriorityOf(input0, y)
                    /\ Unrelated(paths, x, y) )
                  => PosOf(r.sorted, x) < PosOf(r.sorted, y)

\* C9 amended: ... provided every task that depends on y, directly or through
\* other tasks, also has a higher numeric priority than x.
SortPriorityAmongUnrelatedAmended ==
    \A k \in DOMAIN sortResults :
        LET r == sortResults[k]
            paths == Paths(input0)
        IN  r.ok =>
              \A x, y \in Ids(input0) :
                  ( /\ PriorityOf(input0, x) < PriorityOf(input0, y)
                    /\ Unrelated(paths, x, y)
                    /\ \A w \in Ids(input0) :
                          << w, y >> \in paths =>
                             PriorityOf(input0, x) < PriorityOf(input0, w) )
                  => PosOf(r.sorted, x) < PosOf(r.sorted, y)

\* an array was sorted in which x comes after y in the input, has the lower
\* numeric priority, and y has a dependent, of higher numeric priority than x
SortPriorityAmongUnrelatedWitness ==
    /\ sortResults # << >>
    /\ sortResults[1].ok
    /\ \E x, y, w \in Ids(input0) :
          /\ Unrelated(Paths(input0), x, y)
          /\ y < x
          /\ PriorityOf(input0, x) < PriorityOf(input0, y)
          /\ y \in Reach(input0, w)
          /\ PriorityOf(input0, x) < PriorityOf(input0, w)

\* -------------------------------------------- claims on the plan executor
\* the executeMission call of SpecPlan, and the tasks of its plan
PlanRun == runs[1]
PlanReturned == PlanRun.execResult.returned
PlanTaskIds == { PlanRun.planTasks[i].id : i \in DOMAIN PlanRun.planTasks }
Range(seq) == { seq[i] : i \in DOMAIN seq }
ToolCalls(t) == Range(invocations[t])

\* C3: when executePlan has returned, for every task b of the plan that
\* depends on a task a of the plan whose tool call returned success:false or
\* threw: a is stored failed, b is stored pending, b was never started, and
\* the plan is stored failed.
DependentOfFailedTaskStaysPending ==
    PlanReturned =>
        \A a, b \in PlanTaskIds :
            ( /\ a \in Range(dbTasks[b].dependencies)
              /\ ToolCalls(a) \cap { "fail", "throw" } # { } )
            => /\ dbTasks[a].status = "failed"
               /\ dbTasks[b].status = "pending"
               /\ ~dbTasks[b].startedAt
               /\ b \notin Range(PlanRun.started)
               /\ invocations[b] = << >>
               /\ dbPlans[PlanRun.planId].status = "failed"

\* executePlan has returned from a plan in which b depends on a and a's tool
\* threw
DependentOfFailedTaskStaysPendingWitness ==
    /\ PlanReturned
    /\ \E a, b \in PlanTaskIds :
          /\ a # b
          /\ dbTasks[b].dependencies = << a >>
          /\ invocations[a] = << "throw" >>

NoDependencies ==
    \A i \in DOMAIN PlanRun.planTasks : PlanRun.planTasks[i].dependencies = << >>

\* the tasks were set in_progress in ascending priority, input order (the order
\* of the ids within a plan) among equal priorities
StartedAscending ==
    \A i, j \in DOMAIN PlanRun.started :
        i < j =>
            LET x == PlanRun.started[i]
                y == PlanRun.started[j]
            IN  \/ dbTasks[x].priority < dbTasks[y].priority
                \/ dbTasks[x].priority = dbTasks[y].priority /\ x < y

\* C4, as stated: for a plan whose tasks list no dependencies, the tasks are
\* started in ascending priority, equal priorities in input order, all of them
\* by the time executePlan returns; and when no tool call that was made failed,
\* the plan is stored completed.
IndependentTasksRunByPriority ==
    NoDependencies =>
        /\ StartedAscending
        /\ PlanReturned =>
              /\ Range(PlanRun.started) = PlanTaskIds
              /\ (\A t \in PlanTaskIds : ToolCalls(t) \subseteq { "ok" })
                    => dbPlans[PlanRun.planId].status = "completed"

\* C4, amended: the same order; the plan is stored completed when every task
\* had its tool selected and called once and every call returned success:true.
IndependentTasksRunByPriorityAmended ==
    NoDependencies =>
        /\ StartedAscending
        /\ PlanReturned =>
              /\ Range(PlanRun.started) = PlanTaskIds
              /\ (\A t \in PlanTaskIds : invocations[t] = << "ok" >>)
                    => dbPlans[PlanRun.planId].status = "completed"

\* three independent tasks of priorities 2, 0, 1 were started in the order
\* 0, 1, 2, every tool call succeeded, executePlan has returned
IndependentTasksRunByPriorityWitness ==
    /\ PlanReturned
    /\ NoDependencies
    /\ Len(PlanRun.planTasks) = 3
    /\ [ i \in 1..3 |-> PlanRun.planTasks[i].priority ] = << 2, 0, 1 >>
    /\ PlanRun.started = << PlanRun.planTasks[2].id, PlanRun.planTasks[3].id,
                            PlanRun.planTasks[1].id >>
    /\ \A t \in PlanTaskIds : invocations[t] = << "ok" >>
    /\ dbPlans[PlanRun.planId].status = "completed"

\* the calls of tool.execute for task t whose executeTool has not yet logged
UnloggedCalls(t) ==
    Cardinality({ r \in DOMAIN runs :
        /\ runs[r].pc = "recordUsage"
        /\ CurrentTask(runs[r]).id = t })

\* C5: every call of tool.execute made by executeTool, once executeTool has
\* logged it, has exactly one ToolUsageRecord, in call order, and the record's
\* success flag is true exactly when the tool returned success:true.
OneUsageRecordPerToolCall ==
    \A t \in DOMAIN invocations :
        /\ Len(dbToolUsage[t]) + UnloggedCalls(t) = Len(invocations[t])
        /\ \A i \in DOMAIN dbToolUsage[t] :
              dbToolUsage[t][i].success = (invocations[t][i] = "ok")

\* a call that returned success:false and a call that threw have been logged
OneUsageRecordPerToolCallWitness ==
    \E t1, t2 \in DOMAIN invocations :
        /\ invocations[t1] = << "fail" >> /\ Len(dbToolUsage[t1]) = 1
        /\ invocations[t2] = << "throw" >> /\ Len(dbToolUsage[t2]) = 1

\* the judge's verdict is positive
JudgedComplete(verdict) ==
    ~verdict.threw /\ verdict.completed /\ verdict.pct >= CompletionThreshold

\* C6: for a plan of zero tasks, executePlan returns empty completedTasks and
\* failedTasks and no tool is called; and once executeMission has written the
\* final status, the mission is completed when the judge's verdict is positive
\* and failed when it is not.
EmptyPlanResolvedByJudge ==
    (PlanReturned /\ PlanRun.planTasks = << >>) =>
        /\ PlanRun.execResult.completedTasks = << >>
        /\ PlanRun.execResult.failedTasks = << >>
        /\ ~PlanRun.execResult.error
        /\ \A t \in DOMAIN invocations : invocations[t] = << >>
        /\ PlanRun.pc = "done" =>
              dbMissions[PlanRun.missionId] =
                  IF JudgedComplete(PlanRun.verdict) THEN "completed" ELSE "failed"

\* a mission with a plan of zero tasks has ended failed: the plan step had
\* nothing that failed, the judge set the flag but a percentage below 0.9
EmptyPlanResolvedByJudgeWitness ==
    /\ PlanReturned
    /\ PlanRun.planTasks = << >>
    /\ PlanRun.pc = "done"
    /\ PlanRun.execResult.success
    /\ PlanRun.verdict.completed
    /\ dbMissions[PlanRun.missionId] = "failed"

\* --------------------------------------- claims on the mission orchestrator
\* the places of an executeMission call from the plan's execution on
Executing ==
    { "planActive", "planCatch", "depCheck", "taskStart", "selectTool", "toolExecute",
      "recordUsage", "taskUpdate", "taskCatch", "planFinal", "validate", "setFinal" }

\* what holds of a call r made by resumeMission, after any step
ResumedFromScratch(r) ==
    LET old == IF r \in DOMAIN runs THEN runs[r] ELSE Locals(0, TRUE)
        new == runs'[r]
    IN  \* the call begins at executeMission's first statement, without a plan
        /\ r \notin DOMAIN runs => new.pc = "start" /\ new.planId = 0
        \* its first step stores the status planning and asks for a plan
        /\ (r \in DOMAIN runs /\ old.pc = "start" /\ new.pc # "start")
              => /\ dbMissions'[new.missionId] = "planning"
                 /\ new.pc = "generatePlan"
        \* the plan it executes was stored by it, for its mission
        /\ new.pc \in Executing
              => /\ new.planId > new.plansBefore
                 /\ dbPlans'[new.planId].missionId = new.missionId
        \* the tasks it starts are tasks of that plan
        /\ \A i \in DOMAIN new.started :
              dbTasks'[new.started[i]].planId = new.planId
        \* its steps leave the tasks of the plans stored before it alone
        /\ (r \in DOMAIN runs /\ new # old)
              => \A t \in DOMAIN dbTasks :
                    dbTasks[t].planId <= old.plansBefore
                        => /\ dbTasks'[t] = dbTasks[t]
                           /\ invocations'[t] = invocations[t]
                           /\ dbToolUsage'[t] = dbToolUsage[t]

\* C7: a call of executeMission made by resumeMission starts at the first
\* statement: it stores the status planning, requests and stores a new plan,
\* executes only that plan, and neither starts nor changes a task of a plan
\* that existed when resumeMission was called.
ResumeReplansFromScratch ==
    [][ \A r \in DOMAIN runs' : runs'[r].resumed => ResumedFromScratch(r) ]_vars

\* resumeMission was called when the mission had a plan with a task; the call
\* has ended after starting the one task of the plan it stored itself
ResumeReplansFromScratchWitness ==
    \E r \in DOMAIN runs :
        /\ runs[r].resumed
        /\ runs[r].pc = "done"
        /\ runs[r].plansBefore = 1
        /\ dbPlans[1].missionId = runs[r].missionId
        /\ TaskBase(1) + 1 \in DOMAIN dbTasks
        /\ runs[r].planId = 2
        /\ runs[r].started = << TaskBase(2) + 1 >>

\* the stated state machine of Mission.status, read generously: failed may be
\* forced from any status a running orchestration can be in, and resume may
\* take a paused mission from pending back to executing
StatedTransitions ==
    { << "pending", "planning" >>, << "planning", "executing" >>,
      << "executing", "completed" >>, << "executing", "failed" >>,
      << "pending", "failed" >>, << "planning", "failed" >>,
      << "executing", "pending" >>, << "pending", "executing" >> }

\* C10: under every interleaving of executeMission, pause, resume and cancel,
\* every change of a mission's status is a transition of the stated state
\* machine; a mission that is not executing is not moved to pending, and a
\* completed or failed mission is not moved at all.
MissionStatusFollowsStateMachine ==
    [][ \A m \in DOMAIN dbMissions :
            dbMissions'[m] # dbMissions[m]
                => << dbMissions[m], dbMissions'[m] >> \in StatedTransitions ]_vars


\* C11: under FairSpecPlan (every awaited call returns or throws, nobody pauses)
\* the executeMission call ends, and from then on the mission is stored
\* completed or failed.
MissionRunEndsTerminal ==
    <>[](PlanRun.pc = "done" /\ dbMissions[PlanRun.missionId] \in { "completed", "failed" })

\* the call has ended through its catch (planning threw) with the mission failed
MissionRunEndsTerminalWitness ==
    /\ PlanRun.pc = "done"
    /\ PlanRun.result.error
    /\ PlanRun.planId = 0
    /\ dbMissions[PlanRun.missionId] = "failed"


\* a step of the executeMission call raised: planning (the call left through
\* its catch), the plan's execution (executePlan's outer catch ran) or the judge
StepRaised ==
    \/ ~PlanRun.execResult.returned
    \/ PlanRun.execResult.error
    \/ PlanRun.verdict.threw

\* C12: when a step of executeMission raised, the call ends with the mission
\* stored failed and returns success false, empty completedTasks and
\* failedTasks, and the error message.
RaisedStepFailsMission ==
    (PlanRun.pc = "done" /\ StepRaised) =>
        /\ dbMissions[PlanRun.missionId] = "failed"
        /\ ~PlanRun.result.success
        /\ PlanRun.result.completedTasks = << >>
        /\ PlanRun.result.failedTasks = << >>
        /\ PlanRun.result.error

\* the sorter threw on the plan's dependency cycle and the mission has ended
\* completed, the returned result reporting success
RaisedStepFailsMissionWitness ==
    /\ PlanRun.pc = "done"
    /\ PlanRun.execResult.error
    /\ dbMissions[PlanRun.missionId] = "completed"
    /\ PlanRun.result.success


\* C13: when the executeMission call has ended, the mission is stored completed
\* exactly when the judge answered, without an error, completed = true with a
\* completion percentage of at least 0.90; otherwise it is stored failed.
FinalStatusIsJudgesDecision ==
    PlanRun.pc = "done" =>
        /\ dbMissions[PlanRun.missionId] \in { "completed", "failed" }
        /\ dbMissions[PlanRun.missionId] = "completed"
              <=> /\ PlanRun.execResult.returned
                  /\ ~PlanRun.verdict.threw
                  /\ PlanRun.verdict.completed
                  /\ PlanRun.verdict.pct >= CompletionThreshold

\* the judge answered completed = true with exactly 0.90 after a plan with a
\* failed task, and the mission has ended completed
FinalStatusIsJudgesDecisionWitness ==
    /\ PlanRun.pc = "done"
    /\ PlanRun.verdict.completed
    /\ PlanRun.verdict.pct = CompletionThreshold
    /\ PlanRun.execResult.failedTasks # << >>
    /\ dbMissions[PlanRun.missionId] = "completed"


\* the plans stored for mission m
PlansOf(m) == { p \in DOMAIN dbPlans : dbPlans[p].missionId = m }

\* C14: in every reachable state at most one plan of a mission is active, and
\* a plan that left draft before a newer plan of its mission did is superseded.
OneActivePlanPerMission ==
    \A m \in DOMAIN dbMissions :
        /\ Cardinality({ p \in PlansOf(m) : dbPlans[p].status = "active" }) <= 1
        /\ \A p, q \in PlansOf(m) :
              (p < q /\ dbPlans[p].status # "draft" /\ dbPlans[q].status # "draft")
                  => dbPlans[p].status = "superseded"

\* two plans of one mission are active: the call started by POST is still
\* executing its plan when the call started by resumeMission activates its own
OneActivePlanPerMissionWitness ==
    \E m \in DOMAIN dbMissions :
        \E p, q \in PlansOf(m) :
            /\ p # q
            /\ dbPlans[p].status = "active"
            /\ dbPlans[q].status = "active"


\* ------------------------------------------------ claims on plan revisions
\* C15: a revision raises a plan's version by exactly 1, and the step that
\* stores the plan of a new version (a version above 1) leaves the plan of the
\* prior version of the mission superseded: in no state does the new version
\* exist with the prior version not superseded.
RevisionSupersedesAtomically ==
    [][ /\ \A p \in DOMAIN dbPlans :
              dbPlans'[p].version # dbPlans[p].version
                  => dbPlans'[p].version = dbPlans[p].version + 1
        /\ \A q \in DOMAIN dbPlans' \ DOMAIN dbPlans :
              dbPlans'[q].version > 1
                  => \E p \in DOMAIN dbPlans :
                        /\ dbPlans[p].missionId = dbPlans'[q].missionId
                        /\ dbPlans[p].version = dbPlans'[q].version - 1
                        /\ dbPlans'[p].status = "superseded" ]_vars

\* adjustStrategy has stored version 2 and not yet written superseded: the
\* plan of version 1 it was handed is stored with another status
RevisionSupersedesAtomicallyWitness ==
    \E c \in DOMAIN revisions :
        /\ revisions[c].pc = "adjustSupersede"
        /\ dbPlans[revisions[c].newPlanId].version = 2
        /\ dbPlans[revisions[c].planId].version = 1
        /\ dbPlans[revisions[c].planId].status # "superseded"


\* createPlan has returned its plan to executeMission, and every call of
\* updatePlan and decomposeTasks that was made has returned or thrown
PlanningAnswersStored ==
    /\ PlanRun.pc \in Executing \cup { "done" }
    /\ PlanRun.pc = "done" => PlanRun.execResult.returned
    /\ \A c \in DOMAIN revisions : revisions[c].pc = "done"

\* C16: once createPlan, updatePlan and decomposeTasks have stored the tasks of
\* the planning answers, every id in a stored task's dependency list is the id
\* of a stored task of the same plan.
DependenciesStayInPlan ==
    PlanningAnswersStored =>
        \A t \in DOMAIN dbTasks :
            \A d \in Range(dbTasks[t].dependencies) :
                /\ d \in DOMAIN dbTasks
                /\ dbTasks[d].planId = dbTasks[t].planId

\* createPlan stored a task whose dependency list names an id no task has; the
\* plan has been executed and the task was skipped, it is still pending
DependenciesStayInPlanWitness ==
    /\ PlanRun.pc = "done"
    /\ PlanRun.execResult.returned
    /\ revisions = << >>
    /\ \E t \in PlanTaskIds :
          /\ \E d \in Range(dbTasks[t].dependencies) : d \notin DOMAIN invocations
          /\ dbTasks[t].status = "pending"


\* -------------------------------------------- claims on the task executor
\* C17: within one executePlan run at most one task of the plan is stored
\* in_progress, and when a task enters in_progress every task before it in
\* the execution order is stored completed or failed, or was skipped (it is
\* pending and was never started).
TasksRunOneAtATime ==
    [][ /\ Cardinality({ t \in PlanTaskIds : dbTasks'[t].status = "in_progress" }) <= 1
        /\ \A j \in DOMAIN PlanRun.sortedTasks :
              LET b == PlanRun.sortedTasks[j].id
              IN  (dbTasks'[b].status = "in_progress" /\ dbTasks[b].status # "in_progress")
                    => \A i \in 1..(j - 1) :
                          LET a == PlanRun.sortedTasks[i].id
                          IN  \/ dbTasks[a].status \in { "completed", "failed" }
                              \/ /\ dbTasks[a].status = "pending"
                                 /\ a \notin Range(PlanRun.started) ]_vars

\* the second task of the execution order is in progress after the first one
\* was stored failed
TasksRunOneAtATimeWitness ==
    /\ Len(PlanRun.sortedTasks) = 2
    /\ dbTasks[PlanRun.sortedTasks[1].id].status = "failed"
    /\ dbTasks[PlanRun.sortedTasks[2].id].status = "in_progress"


\* ------------------------------------------------- claims on cancellation
\* the mission of the only executeMission call is stored failed while the call
\* is inside executePlan or at the judge: it was cancelled (the call itself
\* writes failed only as it ends)
CancelledInFlight ==
    /\ Len(runs) = 1
    /\ runs[1].pc \in Executing
    /\ dbMissions[runs[1].missionId] = "failed"

\* C18: after cancelMission stored failed during an executeMission call, no
\* step of that call sets a further task in_progress or changes the mission's
\* status: it stays failed.
CancelStopsLaterSteps ==
    [][ (CancelledInFlight /\ runs'[1] # runs[1])
            => /\ runs'[1].started = runs[1].started
               /\ dbMissions'[runs[1].missionId] = "failed" ]_vars


\* ---------------------------------------------- claims on concurrent missions
\* the statuses a call's own mission, plan and tasks have when the call runs
\* alone, given what its tools and the judge answered
SoloOutcome(run) ==
    /\ run.pc = "done" =>
          dbMissions[run.missionId] =
              IF run.execResult.returned /\ JudgedComplete(run.verdict)
              THEN "completed" ELSE "failed"
    /\ run.execResult.returned =>
          /\ dbPlans[run.planId].status =
                IF run.execResult.error \/ run.execResult.failedTasks # << >>
                THEN "failed" ELSE "completed"
          /\ \A i \in DOMAIN run.planTasks :
                LET t == run.planTasks[i].id
                IN  dbTasks[t].status =
                        IF invocations[t] = << "ok" >> THEN "completed"
                        ELSE IF t \in Range(run.started) THEN "failed"
                        ELSE "pending"

\* a step of call r writes no row of the other mission, of another plan or of
\* another plan's tasks
WritesOwnRows(r) ==
    /\ \A m \in DOMAIN dbMissions :
          m # runs[r].missionId => dbMissions'[m] = dbMissions[m]
    /\ \A p \in DOMAIN dbPlans :
          p # runs[r].planId => dbPlans'[p] = dbPlans[p]
    /\ \A p \in DOMAIN dbPlans' \ DOMAIN dbPlans :
          dbPlans'[p].missionId = runs[r].missionId
    /\ \A t \in DOMAIN dbTasks :
          dbTasks[t].planId # runs[r].planId
              => /\ dbTasks'[t] = dbTasks[t]
                 /\ dbToolUsage'[t] = dbToolUsage[t]
                 /\ invocations'[t] = invocations[t]
    /\ \A t \in DOMAIN dbTasks' \ DOMAIN dbTasks :
          dbTasks'[t].planId = runs[r].planId

\* C19: with the executeMission calls of two missions interleaved, every step
\* of a call writes only its own mission, its own plan and that plan's tasks,
\* and the statuses they end with are those of the call running alone with the
\* same tool and judge answers.
InterleavedMissionsIndependent ==
    [][ \A r \in DOMAIN runs :
            /\ runs'[r] # runs[r] => WritesOwnRows(r)
            /\ SoloOutcome(runs[r])' ]_vars

\* both calls have ended, each after a tool call, one mission completed after a
\* failed task and the other failed after a completed one
InterleavedMissionsIndependentWitness ==
    /\ Len(runs) = 2
    /\ runs[1].pc = "done" /\ runs[2].pc = "done"
    /\ runs[1].execResult.failedTasks # << >>
    /\ runs[2].execResult.completedTasks # << >>
    /\ dbMissions[runs[1].missionId] = "completed"
    /\ dbMissions[runs[2].missionId] = "failed"
    /\ runs[1].planId = 2 /\ runs[2].planId = 1


\* ------------------------------------------------- claims on the task executor
\* the positions of executeTask at which a tool is resolved or invoked
ToolPhase == { "selectTool", "toolExecute" }

\* C20: executeTask stores in_progress and the start time before it resolves a
\* tool and before any tool call: while a tool is being selected or invoked the
\* task's stored status is in_progress, and no tool call is made for a task
\* whose stored status is pending.
InProgressBeforeToolUse ==
    [][ /\ PlanRun'.pc \in ToolPhase
            => LET row == dbTasks'[CurrentTask(PlanRun').id]
               IN  row.status = "in_progress" /\ row.startedAt
        /\ \A t \in DOMAIN invocations :
              invocations'[t] # invocations[t]
                  => /\ dbTasks[t].status = "in_progress"
                     /\ dbTasks[t].startedAt ]_vars

\* a tool has been invoked for a task
InProgressBeforeToolUseWitness ==
    /\ PlanRun.pc = "recordUsage"
    /\ invocations[CurrentTask(PlanRun).id] # << >>
    /\ dbTasks[CurrentTask(PlanRun).id].status = "in_progress"


\* ------------------------------------------------ claims on task outcomes
\* the tasks whose executeTask call has ended, by return or by throw
TaskFinished(t) ==
    t \in Range(PlanRun.completedTasks) \cup Range(PlanRun.failedTasks)

ToolFailed(t) == ToolCalls(t) \cap { "fail", "throw" } # { }

\* C21: a task whose tool returned success:false or threw is, once executeTask
\* has ended, stored failed with a completion time and with the error as its
\* result, and it is reported to executePlan as failed.
ToolFailureStoredWithError ==
    \A t \in PlanTaskIds :
        TaskFinished(t) /\ ToolFailed(t)
            => /\ dbTasks[t].status = "failed"
               /\ dbTasks[t].completedAt
               /\ dbTasks[t].result = "error"
               /\ t \in Range(PlanRun.failedTasks)

\* the tool returned success:false and executeTask has returned
ToolFailureStoredWithErrorWitness ==
    \E t \in PlanTaskIds :
        /\ TaskFinished(t)
        /\ invocations[t] = << "fail" >>
        /\ dbTasks[t].status = "failed"
        /\ dbTasks[t].completedAt


\* C22: once executeTask has ended for a task, the task is stored completed
\* exactly when a tool was resolved and returned success:true, and failed
\* otherwise (no tool, success:false, or a thrown error); it is not pending or
\* in_progress, and it has a completion time.
FinishedTaskCompletedIffToolSucceeded ==
    \A t \in PlanTaskIds :
        TaskFinished(t)
            => /\ dbTasks[t].status =
                      IF invocations[t] = << "ok" >> THEN "completed" ELSE "failed"
               /\ dbTasks[t].completedAt

\* executeTask has ended once with success, once with a failure result or a
\* thrown error, or without a tool
FinishedTaskCompletedIffToolSucceededWitness ==
    /\ \E t \in PlanTaskIds : TaskFinished(t) /\ invocations[t] = << "ok" >>
    /\ \E t \in PlanTaskIds : TaskFinished(t) /\ invocations[t] # << "ok" >>


\* ------------------------------------------------ claims on cyclic plans
CyclicPlan == Cyclic(PlanRun.planTasks)

\* C23: for a plan whose tasks hold a dependency cycle, executePlan returns
\* with every task still pending and never started, no tool called, the plan
\* stored failed, and a result of success false, empty completedTasks and
\* failedTasks, and the error message.
CyclicPlanFailsBeforeAnyTask ==
    PlanReturned /\ CyclicPlan
        => /\ \A t \in PlanTaskIds :
                 /\ dbTasks[t].status = "pending"
                 /\ ~dbTasks[t].startedAt
                 /\ invocations[t] = << >>
           /\ PlanRun.started = << >>
           /\ dbPlans[PlanRun.planId].status = "failed"
           /\ ~PlanRun.execResult.success
           /\ PlanRun.execResult.completedTasks = << >>
           /\ PlanRun.execResult.failedTasks = << >>
           /\ PlanRun.execResult.error

\* executePlan returned for a plan of two tasks, one of them on a cycle
CyclicPlanFailsBeforeAnyTaskWitness ==
    /\ PlanReturned
    /\ CyclicPlan
    /\ Len(PlanRun.planTasks) = 2


\* ------------------------------------------------ claims on the dependency check
\* every id of the task's dependency list is a task of the plan stored completed
DepsCompleted(task) ==
    \A k \in DOMAIN task.dependencies :
        /\ task.dependencies[k] \in PlanTaskIds
        /\ dbTasks[task.dependencies[k]].status = "completed"

\* the tasks the loop has visited and not handed to executeTask
SkippedTasks ==
    { PlanRun.sortedTasks[i].id : i \in 1..(PlanRun.idx - 1) } \ Range(PlanRun.started)

UntouchedRow(t) ==
    /\ dbTasks[t].status = "pending"
    /\ ~dbTasks[t].startedAt
    /\ ~dbTasks[t].completedAt
    /\ dbTasks[t].result = "none"
    /\ invocations[t] = << >>

\* C24: executePlan sets a task in_progress only when, as the loop visits it,
\* every id of its dependency list is a task of the plan stored completed;
\* otherwise it skips the task, which stays pending with timestamps and result
\* untouched, has no tool called and is in neither completedTasks nor
\* failedTasks.
StartedOnlyWithCompletedDeps ==
    [][ /\ PlanRun'.started # PlanRun.started => DepsCompleted(CurrentTask(PlanRun))
        /\ PlanRun.pc = "depCheck" /\ PlanRun'.idx # PlanRun.idx
              => ~DepsCompleted(CurrentTask(PlanRun))
        /\ \A t \in SkippedTasks' :
              /\ UntouchedRow(t)'
              /\ t \notin Range(PlanRun'.completedTasks)
              /\ t \notin Range(PlanRun'.failedTasks) ]_vars

\* the plan returned with a task started after the task it depends on completed
StartedOnlyWithCompletedDepsWitness ==
    /\ PlanReturned
    /\ \E t \in PlanTaskIds :
          /\ t \in Range(PlanRun.started)
          /\ dbTasks[t].dependencies # << >>
          /\ DepsCompleted(dbTasks[t])


\* ------------------------------------------------ claims on the plan's loop
NoRepeats(seq) == \A i, j \in DOMAIN seq : seq[i] = seq[j] => i = j

\* the loop of executePlan ran to its end
LoopEnded == PlanReturned /\ ~PlanRun.execResult.error

\* C25: a task-level failure (no tool, failure result, thrown error) does not
\* stop executePlan: when it returns after a successful sort it has visited
\* every task of the sorted order, started no task twice and called no tool
\* twice, every task whose executeTask call failed is in failedTasks, and every
\* task whose dependencies are all completed was executed.
TaskFailureDoesNotHaltPlan ==
    /\ NoRepeats(PlanRun.started)
    /\ \A t \in PlanTaskIds : Len(invocations[t]) <= 1
    /\ \A t \in Range(PlanRun.started) :
          TaskFinished(t) /\ invocations[t] # << "ok" >>
              => t \in Range(PlanRun.failedTasks)
    /\ LoopEnded
          => /\ PlanRun.idx = Len(PlanRun.sortedTasks) + 1
             /\ Ids(PlanRun.sortedTasks) = PlanTaskIds
             /\ NoRepeats(PlanRun.failedTasks \o PlanRun.completedTasks)
             /\ Range(PlanRun.started)
                    = Range(PlanRun.failedTasks) \cup Range(PlanRun.completedTasks)
             /\ \A i \in DOMAIN PlanRun.planTasks :
                    DepsCompleted(PlanRun.planTasks[i])
                        => PlanRun.planTasks[i].id \in Range(PlanRun.started)

\* the first task of the order failed and the next one was still executed
TaskFailureDoesNotHaltPlanWitness ==
    /\ LoopEnded
    /\ Len(PlanRun.started) = 2
    /\ PlanRun.started[1] \in Range(PlanRun.failedTasks)
    /\ PlanRun.started[2] \in Range(PlanRun.completedTasks)


\* ------------------------------------------------ claims on the plan's status
PlanStatus == dbPlans[PlanRun.planId].status

\* the returned success flag agrees with the stored plan status
SuccessIffCompleted ==
    PlanRun.execResult.success <=> PlanStatus = "completed"

\* C26 as stated: when executePlan returns, the plan is stored completed if
\* failedTasks is empty and failed otherwise, and success is true exactly when
\* the plan is stored completed.
PlanStatusByFailedSet ==
    PlanReturned
        => /\ PlanStatus = IF PlanRun.execResult.failedTasks = << >>
                           THEN "completed" ELSE "failed"
           /\ SuccessIffCompleted

\* C26: when executePlan returns, the plan is stored completed if the sorter
\* succeeded and failedTasks is empty, and failed otherwise (the sorter threw,
\* or a task failed); it is not draft or active, and success is true exactly
\* when the plan is stored completed.
PlanStatusByFailedSetAmended ==
    PlanReturned
        => /\ PlanStatus = IF /\ ~PlanRun.execResult.error
                              /\ PlanRun.execResult.failedTasks = << >>
                           THEN "completed" ELSE "failed"
           /\ SuccessIffCompleted

\* executePlan returned after a task failed
PlanStatusByFailedSetWitness ==
    /\ PlanReturned
    /\ PlanRun.execResult.failedTasks # << >>
    /\ PlanRun.execResult.completedTasks # << >>
    /\ PlanStatus = "failed"


\* C27: for a plan holding a circular task dependency, the executeMission call
\* ends with the mission stored failed, whatever the judge answered.
CyclicPlanFailsMission ==
    PlanRun.pc = "done" /\ CyclicPlan
        => dbMissions[PlanRun.missionId] = "failed"

\* the call ended for a plan of two tasks holding a cycle, the plan stored
\* failed, after the judge answered that the goal is reached
CyclicPlanFailsMissionWitness ==
    /\ PlanRun.pc = "done"
    /\ CyclicPlan
    /\ Len(PlanRun.planTasks) = 2
    /\ PlanStatus = "failed"
    /\ JudgedComplete(PlanRun.verdict)


\* ------------------------------------------------ claims on dependency ids
\* every dependency id of the plan names a task of the plan
DepsInPlan ==
    \A i \in DOMAIN PlanRun.planTasks :
        Range(PlanRun.planTasks[i].dependencies) \subseteq PlanTaskIds

\* C29: for a plan whose dependency ids all name tasks of the plan and whose
\* dependency graph has no cycle, when executePlan has returned with the plan
\* stored completed every task of the plan is stored completed.
CompletedPlanHasAllTasksCompleted ==
    PlanReturned /\ DepsInPlan /\ ~CyclicPlan /\ PlanStatus = "completed"
        => \A t \in PlanTaskIds : dbTasks[t].status = "completed"

\* such a plan, one task depending on the other, returned completed
CompletedPlanHasAllTasksCompletedWitness ==
    /\ PlanReturned
    /\ DepsInPlan
    /\ ~CyclicPlan
    /\ PlanStatus = "completed"
    /\ \E i \in DOMAIN PlanRun.planTasks : PlanRun.planTasks[i].dependencies # << >>


\* the tasks of the plan that list an id of no task of the plan
DanglingTasks ==
    { t \in PlanTaskIds : ~(Range(dbTasks[t].dependencies) \subseteq PlanTaskIds) }

\* the sorter has been called by executePlan: it returned or it threw
Sorted == PlanRun.idx > 0 \/ PlanRun.pc = "planCatch" \/ PlanReturned

\* C30: a dependency id of no task of the plan makes the sorter neither throw
\* nor drop the task that lists it, and executePlan never executes that task:
\* it is skipped, stays pending and untouched, and is in neither completedTasks
\* nor failedTasks.
DanglingDependencyTaskNeverRuns ==
    /\ Sorted /\ ~CyclicPlan
          => /\ PlanRun.pc # "planCatch"
             /\ ~PlanRun.execResult.error
             /\ DanglingTasks \subseteq Ids(PlanRun.sortedTasks)
    /\ \A t \in DanglingTasks :
          /\ UntouchedRow(t)
          /\ t \notin Range(PlanRun.started)
          /\ t \notin Range(PlanRun.completedTasks)
          /\ t \notin Range(PlanRun.failedTasks)
    /\ PlanReturned /\ ~PlanRun.execResult.error => DanglingTasks \subseteq SkippedTasks

\* a plan with such a task has returned stored completed, its other task
\* executed
DanglingDependencyTaskNeverRunsWitness ==
    /\ PlanReturned
    /\ DanglingTasks # { }
    /\ PlanRun.execResult.completedTasks # << >>
    /\ PlanStatus = "completed"

====
